---- MODULE Spec2Model ----
(***************************************************************************)
(* Model of merge_to_parquet.py: a one-shot script that lists the folder   *)
(* "daily", reads every *.csv entry with a fixed schema, projects it onto  *)
(* the base columns, adds a SYMBOL column, concatenates the frames,        *)
(* re-projects with casts, prints statistics and writes one parquet file.  *)
(*                                                                         *)
(* File names are sequences of one-character strings so that endswith,     *)
(* replace and upper are computed as Python computes them.  A data frame   *)
(* is a record [columns, dtypes, rows]; a row maps column names to cells.  *)
(* A data cell is an abstract record identifier (equal identifiers are     *)
(* equal rows); the SYMBOL cell is the symbol string itself.               *)
(***************************************************************************)
EXTENDS Integers, Sequences, FiniteSets, TLC

\* ---------------------------------------------------------------- bounds
MaxFiles == 2
MaxRows == 2

\* ------------------------------------------------------- program constants
ProgressEvery == 100

input_folder == "daily"
output_parquet == "Master_nse_data.parquet"

Range(s) == {s[i] : i \in 1..Len(s)}

\* schema_overrides (dict of column -> dtype), lines 15-26
schema_overrides ==
    [c \in {"Date", "Open", "High", "Low", "Close", "Volume", "Series",
            "TOTAL_TRADES", "QTY_PER_TRADE", "DLV_QTY"} |->
        CASE c = "Date" -> "Date"
          [] c = "Series" -> "Utf8"
          [] OTHER -> "Float64"]

\* base_columns = list(schema_overrides.keys()): the dict's insertion order
base_columns ==
    <<"Date", "Open", "High", "Low", "Close", "Volume", "Series",
      "TOTAL_TRADES", "QTY_PER_TRADE", "DLV_QTY">>

\* ------------------------------------------------------------ str methods
dot_csv == <<".", "c", "s", "v">>

\* str.upper() on one character (the alphabet of the modelled names)
UpperChar(ch) ==
    CASE ch = "a" -> "A"
      [] ch = "b" -> "B"
      [] ch = "c" -> "C"
      [] ch = "s" -> "S"
      [] ch = "v" -> "V"
      [] OTHER -> ch

Upper(s) == [i \in 1..Len(s) |-> UpperChar(s[i])]

\* a suffix test that ignores case
EndsWithCsv_IgnoreCase(f) ==
    /\ Len(f) >= Len(dot_csv)
    /\ Upper(SubSeq(f, Len(f) - Len(dot_csv) + 1, Len(f))) = Upper(dot_csv)

\* f.endswith(".csv")
EndsWithCsv(f) ==
    /\ Len(f) >= Len(dot_csv)
    /\ SubSeq(f, Len(f) - Len(dot_csv) + 1, Len(f)) = dot_csv

\* s.replace(".csv", ""): every non-overlapping occurrence, left to right
RECURSIVE ReplaceCsv(_)
ReplaceCsv(s) ==
    IF Len(s) < Len(dot_csv) THEN s
    ELSE IF SubSeq(s, 1, Len(dot_csv)) = dot_csv
         THEN ReplaceCsv(SubSeq(s, Len(dot_csv) + 1, Len(s)))
         ELSE <<Head(s)>> \o ReplaceCsv(Tail(s))

\* symbol = file.replace(".csv", "").upper(), line 46
SymbolOf(file) == Upper(ReplaceCsv(file))

\* --------------------------------------------------------- polars methods
\* pl.read_csv(..., schema_overrides=schema_overrides): the columns of the
\* file in file order; an overridden column gets its fixed dtype, any other
\* column the inferred one (cells are integers here).
ReadCsv(content) ==
    [columns |-> content.columns,
     dtypes  |-> [c \in Range(content.columns) |->
                    IF c \in DOMAIN schema_overrides
                    THEN schema_overrides[c] ELSE "Int64"],
     rows    |-> [i \in 1..Len(content.rows) |->
                    [c \in Range(content.columns) |-> content.rows[i]]]]

\* df.select(cols) for a list of plain column names
Select(df, cols) ==
    [columns |-> cols,
     dtypes  |-> [c \in Range(cols) |-> df.dtypes[c]],
     rows    |-> [i \in 1..Len(df.rows) |->
                    [c \in Range(cols) |-> df.rows[i][c]]]]

\* [col for col in base_columns if col in df.columns], line 58
PresentBaseColumns(df) ==
    LET present(c) == c \in Range(df.columns)
    IN SelectSeq(base_columns, present)

\* df.with_columns(pl.lit(value).alias(name), dtype Utf8): replaces a column
\* of that name in place, otherwise appends it
WithColumnsLit(df, name, value) ==
    [columns |-> IF name \in Range(df.columns) THEN df.columns
                 ELSE Append(df.columns, name),
     dtypes  |-> [c \in Range(df.columns) \cup {name} |->
                    IF c = name THEN "Utf8" ELSE df.dtypes[c]],
     rows    |-> [i \in 1..Len(df.rows) |->
                    [c \in Range(df.columns) \cup {name} |->
                        IF c = name THEN value ELSE df.rows[i][c]]]]

\* the try body of the loop, lines 49-61
BuildFrame(content, symbol) ==
    LET df == ReadCsv(content)
    IN WithColumnsLit(Select(df, PresentBaseColumns(df)), "SYMBOL", symbol)

\* a concatenation that keeps only the first of equal rows
RECURSIVE DedupRows(_, _)
DedupRows(rs, seen) ==
    IF rs = <<>> THEN <<>>
    ELSE IF Head(rs) \in seen THEN DedupRows(Tail(rs), seen)
    ELSE <<Head(rs)>> \o DedupRows(Tail(rs), seen \cup {Head(rs)})

RECURSIVE AllRows(_)
AllRows(fs) == IF fs = <<>> THEN <<>> ELSE Head(fs).rows \o AllRows(Tail(fs))

ConcatRows_Dedup(fs) == DedupRows(AllRows(fs), {})

\* rows of all frames, one frame after the other
RECURSIVE ConcatRows(_)
ConcatRows(fs) ==
    IF fs = <<>> THEN <<>> ELSE Head(fs).rows \o ConcatRows(Tail(fs))

\* supertype used by how="vertical_relaxed"
SuperType(a, b) ==
    IF a = b THEN a
    ELSE IF {a, b} = {"Int64", "Float64"} THEN "Float64"
    ELSE "Utf8"

RECURSIVE SuperTypeOf(_, _)
SuperTypeOf(fs, c) ==
    IF Len(fs) = 1 THEN Head(fs).dtypes[c]
    ELSE SuperType(Head(fs).dtypes[c], SuperTypeOf(Tail(fs), c))

\* pl.concat raises unless there is a frame and all frames have the same
\* columns in the same order
ConcatOk(fs) ==
    /\ fs # <<>>
    /\ \A i \in 1..Len(fs) : fs[i].columns = fs[1].columns

\* pl.concat(frames, how="vertical_relaxed"), line 85
Concat(fs) ==
    [columns |-> fs[1].columns,
     dtypes  |-> [c \in Range(fs[1].columns) |-> SuperTypeOf(fs, c)],
     rows    |-> ConcatRows(fs)]

\* the eleven pl.col(name).cast(dtype) expressions of lines 89-101
select_columns == Append(base_columns, "SYMBOL")

CastTo(c) == IF c = "SYMBOL" THEN "Utf8" ELSE schema_overrides[c]

\* pl.col(name) raises ColumnNotFoundError for a column that is absent
StandardizeOk(df) == \A c \in Range(select_columns) : c \in Range(df.columns)

\* a re-projection that leaves SYMBOL out of the list
Standardize_NoSymbol(df) ==
    [columns |-> base_columns,
     dtypes  |-> [c \in Range(base_columns) |-> CastTo(c)],
     rows    |-> [i \in 1..Len(df.rows) |->
                    [c \in Range(base_columns) |-> df.rows[i][c]]]]

Standardize(df) ==
    [columns |-> select_columns,
     dtypes  |-> [c \in Range(select_columns) |-> CastTo(c)],
     rows    |-> [i \in 1..Len(df.rows) |->
                    [c \in Range(select_columns) |-> df.rows[i][c]]]]

\* ------------------------------------------------------------ environment
\* names a directory entry of daily/ may have
EntryNames ==
    { <<"a", ".", "c", "s", "v">>,
      <<"b", ".", "c", "s", "v">>,
      <<"a", ".", "c", "s", "v", ".", "c", "s", "v">>,
      <<"B", ".", "C", "S", "V">>,
      <<"c", "s", "v">> }

\* header of a file with every base column, out of order, and two others
FullHeader ==
    <<"SYMBOL", "Close", "Date", "Open", "High", "Low", "Series", "Volume",
      "DLV_QTY", "TOTAL_TRADES", "QTY_PER_TRADE", "Extra">>

\* header of a file without the delivery columns
PartialHeader == <<"Date", "Open", "High", "Low", "Close", "Volume">>

RowsOfLen(n) == [i \in 1..n |-> 1 + (i % 2)]

Unreadable == [ok |-> FALSE, columns |-> <<>>, rows |-> <<>>]

\* what a directory entry may hold: something read_csv raises on (an empty
\* file, a directory, a binary file), or a CSV table
Contents ==
    {Unreadable} \cup
    { [ok |-> TRUE, columns |-> h, rows |-> RowsOfLen(n)] :
        h \in {FullHeader, PartialHeader}, n \in 0..MaxRows }

\* os.listdir results: sequences of distinct names, in any order
Listings ==
    { l \in UNION { [1..n -> EntryNames] : n \in 0..MaxFiles } :
        \A i, j \in 1..Len(l) : i # j => l[i] # l[j] }

NoFile == [exists |-> FALSE]
OldFile == [exists |-> TRUE, columns |-> <<"old">>,
            dtypes |-> [c \in {"old"} |-> "Utf8"], rows |-> <<>>]
NoFrame == [columns |-> <<>>, dtypes |-> <<>>, rows |-> <<>>]

VARIABLES
    pc,            \* position in the script
    listing,       \* os.listdir(input_folder)
    disk,          \* content of every entry of daily/
    output_file,   \* Master_nse_data.parquet in the working directory
    files,         \* the list built at line 32
    i,             \* enumerate index of the next file
    frames,        \* list of data frames
    frame_file,    \* for each frame, the file it was read from
    failed_files,  \* list of skipped file names
    reads,         \* names passed to pl.read_csv, in order
    merged_df,     \* result of concat / select
    writes,        \* number of write_parquet calls
    printed,       \* printed messages, by kind
    exit_status    \* -1 while running, else the process exit status

vars == <<pc, listing, disk, output_file, files, i, frames, frame_file,
          failed_files, reads, merged_df, writes, printed, exit_status>>

Init ==
    /\ pc = "start"
    /\ listing \in Listings
    /\ disk \in [Range(listing) -> Contents]
    /\ output_file \in {NoFile, OldFile}
    /\ files = <<>>
    /\ i = 1
    /\ frames = <<>>
    /\ frame_file = <<>>
    /\ failed_files = <<>>
    /\ reads = <<>>
    /\ merged_df = NoFrame
    /\ writes = 0
    /\ printed = <<"Started">>
    /\ exit_status = -1

\* lines 31-43: list the folder, keep *.csv, exit(1) when there is none
ListDir ==
    /\ pc = "start"
    /\ files' = SelectSeq(listing, EndsWithCsv)
    /\ IF Len(files') = 0
       THEN /\ pc' = "exit"
            /\ exit_status' = 1
            /\ printed' = printed \o <<"Scanning", "Found", "NoCsvFiles">>
       ELSE /\ pc' = "loop"
            /\ exit_status' = exit_status
            /\ printed' = printed \o <<"Scanning", "Found", "Processing">>
    /\ UNCHANGED <<listing, disk, output_file, i, frames, frame_file,
                   failed_files, reads, merged_df, writes>>

\* the loop body without the except clause: a failing read ends the process
ProcessFile_NoExcept ==
    /\ pc = "loop"
    /\ i <= Len(files)
    /\ LET file == files[i]
           symbol == SymbolOf(file)
       IN /\ reads' = Append(reads, file)
          /\ IF disk[file].ok
             THEN /\ frames' = Append(frames, BuildFrame(disk[file], symbol))
                  /\ frame_file' = Append(frame_file, file)
                  /\ pc' = pc
                  /\ exit_status' = exit_status
             ELSE /\ pc' = "crashed"
                  /\ exit_status' = 1
                  /\ UNCHANGED <<frames, frame_file>>
    /\ i' = i + 1
    /\ UNCHANGED <<listing, disk, output_file, files, merged_df, writes,
                   failed_files, printed>>

\* lines 44-71: one iteration of the loop, try and except included
ProcessFile ==
    /\ pc = "loop"
    /\ i <= Len(files)
    /\ LET file == files[i]
           symbol == SymbolOf(file)
       IN /\ reads' = Append(reads, file)
          /\ IF disk[file].ok
             THEN /\ frames' = Append(frames, BuildFrame(disk[file], symbol))
                  /\ frame_file' = Append(frame_file, file)
                  /\ failed_files' = failed_files
                  /\ printed' = IF i % ProgressEvery = 0
                                THEN Append(printed, "Progress")
                                ELSE printed
             ELSE /\ failed_files' = Append(failed_files, file)
                  /\ printed' = Append(printed, "Skipped")
                  /\ UNCHANGED <<frames, frame_file>>
    /\ i' = i + 1
    /\ UNCHANGED <<pc, listing, disk, output_file, files, merged_df, writes,
                   exit_status>>

\* the summary without the empty-frames guard
AfterLoop_NoGuard ==
    /\ pc = "loop"
    /\ i > Len(files)
    /\ pc' = "concat"
    /\ printed' = printed \o <<"Processed", "Concatenating">>
    /\ UNCHANGED <<listing, disk, output_file, files, i, frames, frame_file,
                   failed_files, reads, merged_df, writes, exit_status>>

\* lines 73-84: summary after the loop, exit(1) when frames is empty
AfterLoop ==
    /\ pc = "loop"
    /\ i > Len(files)
    /\ LET summary == IF failed_files # <<>>
                      THEN <<"Processed", "FailedFiles">>
                      ELSE <<"Processed">>
       IN IF Len(frames) = 0
          THEN /\ pc' = "exit"
               /\ exit_status' = 1
               /\ printed' = printed \o summary \o <<"NoFrames">>
          ELSE /\ pc' = "concat"
               /\ exit_status' = exit_status
               /\ printed' = printed \o summary \o <<"Concatenating">>
    /\ UNCHANGED <<listing, disk, output_file, files, i, frames, frame_file,
                   failed_files, reads, merged_df, writes>>

\* line 85: pl.concat; its exception is not caught and ends the process
ConcatFrames ==
    /\ pc = "concat"
    /\ IF ConcatOk(frames)
       THEN /\ merged_df' = Concat(frames)
            /\ pc' = "standardize"
            /\ printed' = Append(printed, "Standardizing")
            /\ exit_status' = exit_status
       ELSE /\ pc' = "crashed"
            /\ exit_status' = 1
            /\ UNCHANGED <<merged_df, printed>>
    /\ UNCHANGED <<listing, disk, output_file, files, i, frames, frame_file,
                   failed_files, reads, writes>>

\* lines 89-101: merged_df.select of the eleven casts
StandardizeColumns ==
    /\ pc = "standardize"
    /\ IF StandardizeOk(merged_df)
       THEN /\ merged_df' = Standardize(merged_df)
            /\ pc' = "stats"
            /\ exit_status' = exit_status
       ELSE /\ pc' = "crashed"
            /\ exit_status' = 1
            /\ UNCHANGED merged_df
    /\ UNCHANGED <<listing, disk, output_file, files, i, frames, frame_file,
                   failed_files, reads, writes, printed>>

\* the statistics block moved behind the write
PrintStats_AfterWrite ==
    /\ pc = "stats"
    /\ printed' = Append(printed, "Writing")
    /\ pc' = "write"
    /\ UNCHANGED <<listing, disk, output_file, files, i, frames, frame_file,
                   failed_files, reads, merged_df, writes, exit_status>>

\* lines 104-111: the statistics block and the "Writing" line
PrintStats ==
    /\ pc = "stats"
    /\ printed' = printed \o <<"Statistics", "Writing">>
    /\ pc' = "write"
    /\ UNCHANGED <<listing, disk, output_file, files, i, frames, frame_file,
                   failed_files, reads, merged_df, writes, exit_status>>

\* a write that also happens inside the loop, after every appended frame
WriteParquet_Incremental ==
    \/ /\ pc = "write"
       /\ output_file' = [exists |-> TRUE, columns |-> merged_df.columns,
                          dtypes |-> merged_df.dtypes,
                          rows |-> merged_df.rows]
       /\ writes' = writes + 1
       /\ pc' = "verify"
       /\ UNCHANGED <<listing, disk, files, i, frames, frame_file,
                      failed_files, reads, merged_df, printed, exit_status>>
    \/ /\ pc = "loop"
       /\ writes < Len(frames)
       /\ output_file' = [exists |-> TRUE,
                          columns |-> frames[Len(frames)].columns,
                          dtypes |-> frames[Len(frames)].dtypes,
                          rows |-> frames[Len(frames)].rows]
       /\ writes' = writes + 1
       /\ UNCHANGED <<pc, listing, disk, files, i, frames, frame_file,
                      failed_files, reads, merged_df, printed, exit_status>>

\* line 112: merged_df.write_parquet(output_parquet)
WriteParquet ==
    /\ pc = "write"
    /\ output_file' = [exists |-> TRUE, columns |-> merged_df.columns,
                       dtypes |-> merged_df.dtypes, rows |-> merged_df.rows]
    /\ writes' = writes + 1
    /\ pc' = "verify"
    /\ UNCHANGED <<listing, disk, files, i, frames, frame_file, failed_files,
                   reads, merged_df, printed, exit_status>>

\* lines 115-126: check that the file exists, then the closing banner
VerifyAndFinish ==
    /\ pc = "verify"
    /\ IF output_file.exists
       THEN /\ printed' = printed \o <<"Success", "FileSize", "Completed">>
            /\ exit_status' = 0
       ELSE /\ printed' = Append(printed, "NotCreated")
            /\ exit_status' = 1
    /\ pc' = "exit"
    /\ UNCHANGED <<listing, disk, output_file, files, i, frames, frame_file,
                   failed_files, reads, merged_df, writes>>

Next ==
    \/ ListDir
    \/ ProcessFile
    \/ AfterLoop
    \/ ConcatFrames
    \/ StandardizeColumns
    \/ PrintStats
    \/ WriteParquet
    \/ VerifyAndFinish

Spec == Init /\ [][Next]_vars

\* ------------------------------------------------------------- properties
AfterTheLoop == pc \notin {"start", "loop"}

Written == writes > 0

\* the last four characters are '.', 'c', 's', 'v'
HasCsvSuffix(f) ==
    /\ Len(f) >= 4
    /\ f[Len(f) - 3] = "."
    /\ f[Len(f) - 2] = "c"
    /\ f[Len(f) - 1] = "s"
    /\ f[Len(f)] = "v"

\* the file name without its last four characters
WithoutExtension(f) == SubSeq(f, 1, Len(f) - 4)

ElevenColumns ==
    <<"Date", "Open", "High", "Low", "Close", "Volume", "Series",
      "TOTAL_TRADES", "QTY_PER_TRADE", "DLV_QTY", "SYMBOL">>

\* number of rows of the frames before frame k
RECURSIVE Offset(_)
Offset(k) == IF k <= 1 THEN 0 ELSE Offset(k - 1) + Len(frames[k - 1].rows)

TotalFrameRows == Offset(Len(frames) + 1)

\* C1: every listed file is read exactly once, in list order; a failing
\* read is recorded in failed_files and the loop goes on; every file read
\* is in exactly one of frames and failed_files, and after the loop
\* len(frames) + len(failed_files) = len(files).
C1_CatchAndSkip ==
    /\ Len(reads) <= Len(files)
    /\ reads = SubSeq(files, 1, Len(reads))
    /\ \A a, b \in 1..Len(reads) : a # b => reads[a] # reads[b]
    /\ Len(frames) + Len(failed_files) = Len(reads)
    /\ Range(frame_file) \cap Range(failed_files) = {}
    /\ Range(frame_file) \cup Range(failed_files) = Range(reads)
    /\ Range(failed_files) = {f \in Range(reads) : ~disk[f].ok}
    /\ AfterTheLoop =>
          /\ reads = files
          /\ Len(frames) + Len(failed_files) = Len(files)

C1_Witness ==
    /\ pc = "concat"
    /\ Len(files) = 2
    /\ failed_files = <<files[1]>>
    /\ frame_file = <<files[2]>>

\* C2: whenever the output file has been written it has exactly the eleven
\* columns Date .. DLV_QTY, SYMBOL in that order, Date typed Date, Series
\* and SYMBOL Utf8, all others Float64.
C2_OutputSchema ==
    Written =>
        /\ output_file.exists
        /\ output_file.columns = ElevenColumns
        /\ DOMAIN output_file.dtypes = Range(ElevenColumns)
        /\ \A c \in Range(ElevenColumns) :
              output_file.dtypes[c] =
                 IF c = "Date" THEN "Date"
                 ELSE IF c \in {"Series", "SYMBOL"} THEN "Utf8"
                 ELSE "Float64"
        /\ \A r \in 1..Len(output_file.rows) :
              DOMAIN output_file.rows[r] = Range(ElevenColumns)

C2_Witness ==
    /\ Written
    /\ Len(output_file.rows) > 0
    /\ \E f \in Range(frame_file) : disk[f].columns # ElevenColumns

\* C3 (as stated): every row that came from file F carries SYMBOL equal to
\* F's name without its '.csv' extension, in upper case.
C3_SymbolIsNameWithoutExtension ==
    \A k \in 1..Len(frames) : \A r \in 1..Len(frames[k].rows) :
        frames[k].rows[r]["SYMBOL"] = Upper(WithoutExtension(frame_file[k]))

\* C4 (as stated): every frame in frames has the ten base columns followed
\* by SYMBOL, whatever columns the input file had.
C4_FramesHaveFixedColumns ==
    \A k \in 1..Len(frames) : frames[k].columns = ElevenColumns

\* C5 (as stated): the output file is written before the final dataset
\* statistics are printed.
C5_WriteBeforeStatistics ==
    "Statistics" \in Range(printed) => Written

\* C5 (amended): the steps happen in the order listing, per-file parse and
\* projection, concatenation, re-projection, statistics, write: the
\* statistics are printed after the re-projection and before the write.
C5_StatisticsBeforeWrite ==
    /\ reads # <<>> => "Found" \in Range(printed)
    /\ merged_df # NoFrame => /\ reads = files
                              /\ "Concatenating" \in Range(printed)
    /\ "Statistics" \in Range(printed) =>
          /\ merged_df.columns = ElevenColumns
          /\ pc \in {"write", "verify", "exit"}
    /\ Written => "Statistics" \in Range(printed)
    /\ "Completed" \in Range(printed) => Written

C5_Witness ==
    /\ pc = "write"
    /\ "Statistics" \in Range(printed)
    /\ ~Written

\* C6: the output file is written at most once, only after every listed
\* file has been attempted, and never while the loop is running.
C6_OneWriteAfterTheLoop ==
    /\ [](writes <= 1)
    /\ [](Written => /\ AfterTheLoop
                     /\ reads = files
                     /\ Len(frames) + Len(failed_files) = Len(files))
    /\ [][(~AfterTheLoop) =>
             (output_file' = output_file /\ writes' = writes)]_vars

C6_Witness ==
    /\ writes = 1
    /\ Len(files) = 2
    /\ Len(failed_files) = 1

\* C7: the merged table holds the rows of the frames, frame after frame in
\* list order, none dropped and equal rows all kept; its row count is the
\* sum of the frames' row counts.
C7_NoRowLost ==
    merged_df # NoFrame =>
        /\ Len(merged_df.rows) = TotalFrameRows
        /\ frame_file = SelectSeq(files, LAMBDA f : disk[f].ok)
        /\ \A k \in 1..Len(frames) : \A r \in 1..Len(frames[k].rows) :
              \A c \in Range(merged_df.columns) :
                 merged_df.rows[Offset(k) + r][c] = frames[k].rows[r][c]
        /\ Written => output_file.rows = merged_df.rows

C7_Witness ==
    /\ Written
    /\ failed_files = <<>>
    /\ \E a, b \in 1..Len(output_file.rows) :
          a # b /\ output_file.rows[a] = output_file.rows[b]

\* C8: an entry of the folder is read if and only if its name ends with
\* '.csv' (case-sensitive); the folder and its files never change and the
\* only file written is the output file.
C8_OnlyCsvRead ==
    /\ [](Range(reads) \subseteq {f \in Range(listing) : HasCsvSuffix(f)})
    /\ [](AfterTheLoop =>
             Range(reads) = {f \in Range(listing) : HasCsvSuffix(f)})
    /\ [](Range(frame_file) \subseteq {f \in Range(listing) : HasCsvSuffix(f)})
    /\ [][listing' = listing /\ disk' = disk]_vars
    /\ [][(output_file' # output_file) => (writes' = writes + 1)]_vars

C8_Witness ==
    /\ pc = "exit"
    /\ reads # <<>>
    /\ \E f \in Range(listing) : ~HasCsvSuffix(f) /\ disk[f].ok

\* C9: with no CSV file listed, or with frames empty after the loop, the
\* run exits with status 1 without concatenating and without touching the
\* output file; the output file is written only if frames is not empty.
C9_NoDataNoOutput ==
    /\ (pc # "start" /\ Len(files) = 0) =>
          /\ pc = "exit"
          /\ exit_status = 1
          /\ reads = <<>>
    /\ (AfterTheLoop /\ Len(frames) = 0) =>
          /\ pc = "exit"
          /\ exit_status = 1
          /\ merged_df = NoFrame
          /\ writes = 0
          /\ output_file \in {NoFile, OldFile}
    /\ Written => Len(frames) >= 1

C9_Witness ==
    /\ pc = "exit"
    /\ Len(files) = 2
    /\ Len(failed_files) = 2
    /\ output_file = OldFile

\* C10 (as stated): a run that parsed at least one file into a frame ends
\* having written the output file and printed the closing banner, whatever
\* columns the files lacked; the banner is printed only when the file
\* exists.
C10_FrameImpliesSuccess ==
    /\ (pc \in {"exit", "crashed"} /\ Len(frames) >= 1) =>
          /\ Written
          /\ "Completed" \in Range(printed)
    /\ "Completed" \in Range(printed) => output_file.exists


====
